---- MODULE Spec2Model ----
(***************************************************************************)
(* A model of scripts/fetch_and_parse_digest.py: the digest segmenter, the *)
(* header extractor, the rule-based classifiers, the item assembler, the   *)
(* IMAP retrieval with its tiered search, and the store merger of main().  *)
(*                                                                         *)
(* Python strings are TLA+ strings; a character is a string of length 1.   *)
(* Regular expressions are translated to the positions they can match.     *)
(***************************************************************************)
EXTENDS Integers, Sequences, FiniteSets, TLC

VARIABLES
    \* ---- main(): the persisted file and the locals of one run
    store,          \* DATA_FILE: [items, stats, generated_at] as last written
    fileWritten,    \* TRUE once save_payload has written DATA_FILE
    pc,             \* position of main(): start, fetch, parse, merge, done, aborted
    run,            \* number of the current run of main()
    existing_items, \* main: existing_items
    known_ids,      \* main: known_ids
    mails,          \* main: mails
    mail_pos,       \* main: how many of mails the outer loop has processed
    seen_parsed,    \* the items parse_digest_text has returned so far in this run
    new_items,      \* main: new_items
    merged,         \* main: merged (after the recompute loop)
    store_at_start, \* DATA_FILE as it was when this run began
    reads,          \* load_existing calls in this run
    writes,         \* save_payload calls in this run
    \* ---- fetch_messages(): one call stepped through its loops
    fpc,            \* position: select, search, fetch, done, raised
    cfg,            \* [sender_filter, subject_filter] from the environment
    mailbox,        \* the server's folder: sequence of messages
    attempts,       \* labels of the searches issued so far, in order
    outcomes,       \* per issued search: "fail", "empty" or "found"
    tier,           \* index of the next entry of search_attempts
    ids,            \* fetch_messages: ids
    id_pos,         \* how many of ids the fetch loop has handled
    fetch_failed,   \* ids whose conn.fetch did not return OK
    results,        \* fetch_messages: results
    \* ---- split_messages(): input and output of one call
    raw_text,       \* the argument
    chunks_out,     \* the list returned
    split_done,     \* TRUE once the call has returned
    \* ---- classify_ds_policy_fit(): a text, a keyword added to it, both results
    cls_text,       \* the text before the keyword is added
    cls_kw,         \* the keyword added, an entry of one of the two lists
    cls_sep,        \* what separates the keyword from the text: "", " " or "\n"
    cls_new,        \* the text with the keyword added
    cls_before,     \* classify_ds_policy_fit(cls_text)
    cls_after,      \* classify_ds_policy_fit(cls_new)
    cls_done        \* TRUE once both calls have returned

mainVars == <<store, fileWritten, pc, run, existing_items, known_ids, mails, mail_pos,
              seen_parsed, new_items, merged, store_at_start, reads, writes>>
fetchVars == <<fpc, cfg, mailbox, attempts, outcomes, tier, ids, id_pos, fetch_failed, results>>
splitVars == <<raw_text, chunks_out, split_done>>
clsVars == <<cls_text, cls_kw, cls_sep, cls_new, cls_before, cls_after, cls_done>>
vars == <<mainVars, fetchVars, splitVars, clsVars>>

-----------------------------------------------------------------------------
(* Characters and strings                                                  *)

UpperLetters == "ABCDEFGHIJKLMNOPQRSTUVWXYZ"
LowerLetters == "abcdefghijklmnopqrstuvwxyz"
DigitChars == {"0", "1", "2", "3", "4", "5", "6", "7", "8", "9"}

CharAt(s, i) == SubSeq(s, i, i)

\* Python's \s on the characters the model's texts use.
IsSpace(c) == c \in {" ", "\n", "\t", "\r"}

UpperSet == {CharAt(UpperLetters, i) : i \in 1..26}
LowerSet == {CharAt(LowerLetters, i) : i \in 1..26}

IsUpper(c) == c \in UpperSet
IsLower(c) == c \in LowerSet

\* Python's \w: letters, digits, underscore.
IsWordChar(c) ==
    \/ IsUpper(c)
    \/ IsLower(c)
    \/ c \in DigitChars
    \/ c \in {"_", "ä", "ö", "ü", "Ä", "Ö", "Ü", "ß"}

\* str.lower() on the letters that have a lower case in the model's texts.
LowerMap ==
    "A" :> "a" @@ "B" :> "b" @@ "C" :> "c" @@ "D" :> "d" @@ "E" :> "e" @@ "F" :> "f" @@ "G" :> "g"
        @@ "H" :> "h" @@ "I" :> "i" @@ "J" :> "j" @@ "K" :> "k" @@ "L" :> "l" @@ "M" :> "m" @@ "N" :> "n"
        @@ "O" :> "o" @@ "P" :> "p" @@ "Q" :> "q" @@ "R" :> "r" @@ "S" :> "s" @@ "T" :> "t" @@ "U" :> "u"
        @@ "V" :> "v" @@ "W" :> "w" @@ "X" :> "x" @@ "Y" :> "y" @@ "Z" :> "z" @@ "Ä" :> "ä" @@ "Ö" :> "ö"
        @@ "Ü" :> "ü"

LowerChar(c) == IF c \in DOMAIN LowerMap THEN LowerMap[c] ELSE c

SetMin(S) == CHOOSE x \in S : \A y \in S : x <= y
SetMax(S) == CHOOSE x \in S : \A y \in S : x >= y

\* s.lower(), character by character; the text is halved so that the
\* recursion stays shallow.
RECURSIVE str_lower(_)
str_lower(s) ==
    IF Len(s) = 0 THEN ""
    ELSE IF Len(s) = 1 THEN LowerChar(s)
    ELSE LET h == Len(s) \div 2
         IN str_lower(SubSeq(s, 1, h)) \o str_lower(SubSeq(s, h + 1, Len(s)))

\* First position >= i of s whose character is not whitespace, else Len(s)+1.
SkipSpace(s, i) == SetMin({p \in i..(Len(s) + 1) : p > Len(s) \/ ~IsSpace(CharAt(s, p))})

\* Last position of the longest run of characters satisfying Ok that starts
\* at i (i - 1 when the run is empty).
RunEnd(s, i, Ok(_)) ==
    SetMin({p \in i..(Len(s) + 1) : p > Len(s) \/ ~Ok(CharAt(s, p))}) - 1

\* s.strip()
str_strip(s) ==
    LET a == SkipSpace(s, 1)
        b == SetMax({0} \cup {p \in 1..Len(s) : ~IsSpace(CharAt(s, p))})
    IN SubSeq(s, a, b)

\* s[i:i+len(k)] == k
MatchesAt(s, i, k) ==
    /\ i >= 1
    /\ i + Len(k) - 1 <= Len(s)
    /\ SubSeq(s, i, i + Len(k) - 1) = k

\* k in s
Contains(s, k) == \E i \in 1..(Len(s) - Len(k) + 1) : MatchesAt(s, i, k)

\* The regex assertion \b just before position p (1..Len(s)+1).
WordBoundaryAt(s, p) ==
    LET before == p > 1 /\ IsWordChar(CharAt(s, p - 1))
        after == p <= Len(s) /\ IsWordChar(CharAt(s, p))
    IN before # after

\* re.search(r"\bk\b", s) for a literal k.
SearchWord(s, k) ==
    \E i \in 1..(Len(s) - Len(k) + 1) :
        /\ MatchesAt(s, i, k)
        /\ WordBoundaryAt(s, i)
        /\ WordBoundaryAt(s, i + Len(k))

-----------------------------------------------------------------------------
(* Classifier                                                              *)

\* Each pattern is \b<alternative>\b with re.IGNORECASE; the alternations
\* vacanc(?:y|ies) and doktorand(?:en|in)?stelle are written out.
JOB_REGEX_PATTERNS ==
    << {"job"}, {"vacancy", "vacancies"}, {"opening"}, {"assistant professor"},
       {"professur"}, {"stelle"}, {"stellenausschreibung"}, {"hilfskraft"},
       {"praktikum"}, {"internship"}, {"bewerbung"}, {"bewerbungsfrist"},
       {"apply"}, {"postdoc"}, {"phd"},
       {"doktorandstelle", "doktorandenstelle", "doktorandinstelle"} >>

PROFILE_DS_KEYWORDS ==
    << "data science", "data scientist", "datenwissenschaft", "datenwissenschaftler",
       "datenanalyse", "datenanalyst", "datengetrieben", "datenbasiert",
       "datenkompetenz", "datenmanagement", "datenmodellierung",
       "datenvisualisierung", "datenbank", "business intelligence",
       "kuenstliche intelligenz", "künstliche intelligenz", "maschinelles lernen",
       "prädiktiv", "praediktiv", "prognosemodell", "text mining",
       "zeitreihenanalyse", "wirkungsanalyse", "evaluationsmethoden", "statistik",
       "statistische analyse", "quantitative methoden", "quantitative analyse",
       "paneldaten", "mikrodaten", "forschungsdaten", "survey daten",
       "umfragedaten", "machine learning", "ml", "ai", "artificial intelligence",
       "nlp", "natural language processing", "deep learning", "statistics",
       "statistical", "causal inference", "econometrics", "python", "r ", "sql",
       "pandas", "scikit", "analytics", "data analysis", "computational",
       "quantitative", "visualization", "gis", "big data" >>

PROFILE_POLICY_KEYWORDS ==
    << "public policy", "policy", "politikberatung", "politikfeldanalyse",
       "politikanalyse", "politikforschung", "oeffentliche politik",
       "öffentliche politik", "verwaltung", "oeffentliche verwaltung",
       "öffentliche verwaltung", "politik", "regierung", "ministerium",
       "bundestag", "bundesregierung", "laender", "länder", "kommunalpolitik",
       "eu", "europaeische union", "europäische union", "entwicklungspolitik",
       "sicherheitspolitik", "friedenspolitik", "klimapolitik",
       "migrationspolitik", "arbeitsmarktpolitik", "sozialpolitik",
       "bildungspolitik", "gesundheitspolitik", "regulierungspolitik",
       "verordnung", "gesetzgebung", "verwaltungswissenschaft",
       "politikwissenschaft", "sozialwissenschaft", "wirkungsorientierung",
       "evidenzbasiert", "evidenzbasierte politik", "folgenabschaetzung",
       "folgenabschätzung", "monitoring", "evaluation", "thinktank", "stiftung",
       "governance", "regulation", "regulatory", "government", "ministry",
       "parliament", "think tank", "international relations",
       "global political economy", "development", "public administration",
       "impact evaluation", "evidence-based", "social science",
       "political science", "public sector", "european union", "eu policy",
       "united nations", "peace", "security policy", "climate policy",
       "migration policy" >>

ISOLATED_ABBREVIATIONS == {"ml", "ai", "ki", "r"}

is_job(text) ==
    LET lower == str_lower(text)
    IN \E i \in DOMAIN JOB_REGEX_PATTERNS :
           \E w \in JOB_REGEX_PATTERNS[i] : SearchWord(lower, w)

infer_type_ungated(text, is_job_post) ==
    LET lower == str_lower(text)
    IN IF Contains(lower, "assistant professor") THEN "Assistant Professor"
       ELSE IF Contains(lower, "postdoc") THEN "Postdoc"
       ELSE IF Contains(lower, "phd") THEN "PhD"
       ELSE IF Contains(lower, "professur") THEN "Professorship"
       ELSE IF Contains(lower, "praktikum") \/ Contains(lower, "internship")
            THEN "Internship"
       ELSE IF Contains(lower, "hilfskraft") THEN "Student Assistant"
       ELSE IF Contains(lower, "stelle") \/ SearchWord(lower, "job") THEN "Position"
       ELSE "N/A"

infer_type(text, is_job_post) ==
    IF ~is_job_post THEN "N/A"
    ELSE LET lower == str_lower(text)
         IN IF Contains(lower, "assistant professor") THEN "Assistant Professor"
            ELSE IF Contains(lower, "postdoc") THEN "Postdoc"
            ELSE IF Contains(lower, "phd") THEN "PhD"
            ELSE IF Contains(lower, "professur") THEN "Professorship"
            ELSE IF Contains(lower, "praktikum") \/ Contains(lower, "internship")
                 THEN "Internship"
            ELSE IF Contains(lower, "hilfskraft") THEN "Student Assistant"
            ELSE IF Contains(lower, "stelle") \/ SearchWord(lower, "job")
                 THEN "Position"
            ELSE "N/A"

\* keyword.strip().lower() for the entries of the two lists, computed once.
StrippedKeywords ==
    [k \in {PROFILE_DS_KEYWORDS[i] : i \in DOMAIN PROFILE_DS_KEYWORDS}
            \cup {PROFILE_POLICY_KEYWORDS[i] : i \in DOMAIN PROFILE_POLICY_KEYWORDS}
        |-> str_lower(str_strip(k))]

keyword_matches(lower_text, keyword) ==
    LET k == IF keyword \in DOMAIN StrippedKeywords THEN StrippedKeywords[keyword]
             ELSE str_lower(str_strip(keyword))
    IN IF k = "" THEN FALSE
       ELSE IF k \in ISOLATED_ABBREVIATIONS THEN SearchWord(str_lower(lower_text), k)
       ELSE Contains(lower_text, k)

Take(seq, n) == SubSeq(seq, 1, IF Len(seq) < n THEN Len(seq) ELSE n)

MATCHED_KEYWORDS_LIMIT == 10

classify_ds_policy_fit_le(text) ==
    LET lower == str_lower(text)
        Hit(k) == keyword_matches(lower, k)
        ds_hits == SelectSeq(PROFILE_DS_KEYWORDS, Hit)
        policy_hits == SelectSeq(PROFILE_POLICY_KEYWORDS, Hit)
        score == Len(ds_hits) + Len(policy_hits)
    IN [isDsPolicyFit |-> Len(ds_hits) >= 1 /\ Len(policy_hits) >= 1 /\ score <= 2,
        dsPolicyScore |-> score,
        dsPolicyMatchedKeywords |-> Take(ds_hits \o policy_hits, MATCHED_KEYWORDS_LIMIT)]

classify_ds_policy_fit(text) ==
    LET lower == str_lower(text)
        Hit(k) == keyword_matches(lower, k)
        ds_hits == SelectSeq(PROFILE_DS_KEYWORDS, Hit)
        policy_hits == SelectSeq(PROFILE_POLICY_KEYWORDS, Hit)
        score == Len(ds_hits) + Len(policy_hits)
    IN [isDsPolicyFit |-> Len(ds_hits) >= 1 /\ Len(policy_hits) >= 1 /\ score >= 2,
        dsPolicyScore |-> score,
        dsPolicyMatchedKeywords |-> Take(ds_hits \o policy_hits, MATCHED_KEYWORDS_LIMIT)]

-----------------------------------------------------------------------------
(* Digest Segmenter                                                        *)

\* raw_text.replace("\r", "")
RECURSIVE remove_cr(_)
remove_cr(s) ==
    IF Len(s) = 0 THEN ""
    ELSE IF Len(s) = 1 THEN (IF s = "\r" THEN "" ELSE s)
    ELSE LET h == Len(s) \div 2
         IN remove_cr(SubSeq(s, 1, h)) \o remove_cr(SubSeq(s, h + 1, Len(s)))

AllSpace(s, i, j) == \A x \in i..j : IsSpace(CharAt(s, x))
AllDigits(s, i, j) == \A x \in i..j : CharAt(s, x) \in DigitChars

\* The regex \s*Message:\s+\d+ matched from position i, followed by \n when
\* then_newline (the lookahead of the split) and by anything otherwise.
MarkerFrom(s, i, then_newline) ==
    \E j \in i..Len(s) :
        /\ AllSpace(s, i, j - 1)
        /\ MatchesAt(s, j, "Message:")
        /\ \E k \in (j + 9)..Len(s) :
              /\ AllSpace(s, j + 8, k - 1)
              /\ CharAt(s, k) \in DigitChars
              /\ then_newline =>
                    \E m \in (k + 1)..Len(s) :
                        AllDigits(s, k, m - 1) /\ CharAt(s, m) = "\n"

\* A match of \n(?=\s*Message:\s+\d+\n) at position p.
IsSplitPoint(s, p) == CharAt(s, p) = "\n" /\ MarkerFrom(s, p + 1, TRUE)

\* re.split on those matches: the pieces between consecutive matches.
SplitChunks(s) ==
    LET points == {p \in 1..Len(s) : IsSplitPoint(s, p)}
        \* the k-th split point; 0 before the first, Len(s)+1 after the last
        Nth(k) == IF k = 0 THEN 0
                  ELSE IF k > Cardinality(points) THEN Len(s) + 1
                  ELSE CHOOSE p \in points : Cardinality({q \in points : q < p}) = k - 1
    IN [k \in 1..(Cardinality(points) + 1) |-> SubSeq(s, Nth(k - 1) + 1, Nth(k) - 1)]

\* re.search(r"^\s*Message:\s+\d+", c, re.MULTILINE)
HasMarkerLine(c) ==
    \E q \in 1..Len(c) :
        /\ q = 1 \/ CharAt(c, q - 1) = "\n"
        /\ MarkerFrom(c, q, FALSE)

split_messages_no_fallback(text) ==
    SelectSeq(SplitChunks(remove_cr(text)), HasMarkerLine)

split_messages(text) ==
    LET normalized == remove_cr(text)
        chunks == SplitChunks(normalized)
        filtered == SelectSeq(chunks, HasMarkerLine)
    IN IF filtered # << >> THEN filtered ELSE << normalized >>

-----------------------------------------------------------------------------
(* Header Extractor and Field Inferencer                                   *)

\* First position >= i of s holding a newline, else Len(s)+1.
LineEnd(s, i) == SetMin({p \in i..(Len(s) + 1) : p > Len(s) \/ CharAt(s, p) = "\n"})

\* ^name:\s*([\s\S]*?)(?=\n[A-Z][A-Za-z-]+:|\n\n|$) with re.MULTILINE: the
\* leftmost line that starts with "name:", all whitespace after the colon
\* skipped (greedy \s*), then the shortest span to a place where the
\* lookahead holds.  Every alternative of the lookahead needs a newline or
\* the end of the text, and $ already holds before any newline, so the span
\* ends at the first newline; it therefore holds no newline and the
\* unfolding re.sub(r"\n\s+", " ", ...) changes nothing.
extract_header(block, name) ==
    LET pat == name \o ":"
        starts == {q \in 1..Len(block) :
                      /\ q = 1 \/ CharAt(block, q - 1) = "\n"
                      /\ MatchesAt(block, q, pat)}
    IN IF starts = {} THEN ""
       ELSE LET q == SetMin(starts)
                a == SkipSpace(block, q + Len(pat))
                e == LineEnd(block, a)
            IN str_strip(SubSeq(block, a, e - 1))

\* re.sub(r"^\[ib-liste\]\s*", "", subject, flags=re.IGNORECASE).strip()
clean_subject(subject) ==
    IF MatchesAt(str_lower(subject), 1, "[ib-liste]")
    THEN str_strip(SubSeq(subject, SkipSpace(subject, 11), Len(subject)))
    ELSE str_strip(subject)

\* "\n\n".join(block.split("\n\n")[1:]) if "\n\n" in block else block
block_body(block) ==
    IF Contains(block, "\n\n")
    THEN LET i == SetMin({p \in 1..Len(block) : MatchesAt(block, p, "\n\n")})
         IN SubSeq(block, i + 2, Len(block))
    ELSE block

\* The class [^\s)>] of the link pattern.
IsLinkChar(c) == ~IsSpace(c) /\ c \notin {")", ">"}

\* Length of the scheme when https?://[^\s)>]+ matches at position p, else 0.
LinkScheme(s, p) ==
    LET scheme == IF MatchesAt(s, p, "http://") THEN 7
                  ELSE IF MatchesAt(s, p, "https://") THEN 8
                  ELSE 0
    IN IF scheme > 0 /\ p + scheme <= Len(s) /\ IsLinkChar(CharAt(s, p + scheme))
       THEN scheme
       ELSE 0

\* re.findall(r"https?://[^\s)>]+", body), scanning from position p: the
\* leftmost match, then the matches after its end.
RECURSIVE find_links(_, _)
find_links(s, p) ==
    LET begins == {q \in p..Len(s) : LinkScheme(s, q) > 0}
    IN IF begins = {} THEN << >>
       ELSE LET q == SetMin(begins)
                e == RunEnd(s, q + LinkScheme(s, q), IsLinkChar)
            IN << SubSeq(s, q, e) >> \o find_links(s, e + 1)

\* list(dict.fromkeys(seq)): duplicates dropped, first occurrences kept in order.
RECURSIVE dedup_keep_first(_)
dedup_keep_first(seq) ==
    IF seq = << >> THEN << >>
    ELSE LET init == dedup_keep_first(SubSeq(seq, 1, Len(seq) - 1))
             last == seq[Len(seq)]
         IN IF \E i \in DOMAIN init : init[i] = last THEN init ELSE Append(init, last)

ORG_WORDS == {"university", "universitat", "universität", "institut", "institute"}

\* The class [^,\n.] of the organisation pattern.
IsOrgChar(c) == c \notin {",", "\n", "."}

infer_org(subject, body) ==
    LET combined == subject \o "\n" \o body
        lower == str_lower(combined)
        \* (?:University|Universit[aä]t|Institut|Institute)\s+ at position i
        after(i) == {i + Len(w) : w \in {w \in ORG_WORDS :
                        /\ MatchesAt(lower, i, w)
                        /\ i + Len(w) <= Len(lower)
                        /\ IsSpace(CharAt(lower, i + Len(w)))}}
        uni == {i \in 1..Len(combined) : after(i) # {}}
    IN IF uni # {}
       THEN LET i == SetMin(uni)
                w == SkipSpace(combined, SetMin(after(i)))
            IN str_strip(SubSeq(combined, i, RunEnd(combined, w, IsOrgChar)))
       ELSE \* ,\s*([^,]+)$ on the subject: the text after its last comma
            LET commas == {c \in 1..Len(subject) : CharAt(subject, c) = ","}
            IN IF commas # {} /\ SetMax(commas) < Len(subject)
               THEN str_strip(SubSeq(subject, SetMax(commas) + 1, Len(subject)))
               ELSE "Unknown"

\* The class [^\n\r.!?] that a deadline phrase is made of.
IsPhraseChar(c) == c \notin {"\n", "\r", ".", "!", "?"}

PhraseEnd(s, i) == RunEnd(s, i, IsPhraseChar)

IsPhraseStart(s, c) == c >= 1 /\ c <= Len(s) /\ IsPhraseChar(CharAt(s, c))

\* apply by\s+([^\n\r.!?]+) at position i: where group 1 starts, or 0.
\* \s+ is greedy and gives characters back one at a time, so the group
\* starts at the last position after the first whitespace character, up to
\* the first non-space, that holds a phrase character.
ApplyByStart(s, lower, i) ==
    IF MatchesAt(lower, i, "apply by") /\ i + 8 <= Len(s) /\ IsSpace(CharAt(s, i + 8))
    THEN LET first == SkipSpace(s, i + 8)
             cands == {c \in (i + 9)..first : IsPhraseStart(s, c)}
         IN IF cands = {} THEN 0 ELSE SetMax(cands)
    ELSE 0

\* bewerbungsfrist\s*[:\-]?\s*([^\n\r.!?]+) at position i: where group 1
\* starts, or 0.  In the order the regex engine tries them: the separator
\* taken and the second \s* as long as possible, then shorter; the separator
\* not taken; the first \s* shorter and shorter.
FristStart(s, lower, i) ==
    IF MatchesAt(lower, i, "bewerbungsfrist")
    THEN LET p0 == i + 15
             p1 == SkipSpace(s, p0)
             sep == p1 <= Len(s) /\ CharAt(s, p1) \in {":", "-"}
             taken == IF sep
                      THEN {c \in (p1 + 1)..SkipSpace(s, p1 + 1) : IsPhraseStart(s, c)}
                      ELSE {}
             back == {c \in p0..(p1 - 1) : IsPhraseStart(s, c)}
         IN IF taken # {} THEN SetMax(taken)
            ELSE IF IsPhraseStart(s, p1) THEN p1
            ELSE IF back # {} THEN SetMax(back)
            ELSE 0
    ELSE 0

\* Number of digits (lo..hi of them, as many as possible) at position i that
\* are followed by `next` ("" for nothing required), or 0.
DigitRun(s, i, lo, hi, next) ==
    LET ok == {n \in lo..hi :
                  /\ i + n - 1 <= Len(s)
                  /\ AllDigits(s, i, i + n - 1)
                  /\ next # "" => MatchesAt(s, i + n, next)}
    IN IF ok = {} THEN 0 ELSE SetMax(ok)

\* bis zum\s+([0-9]{1,2}\.[0-9]{1,2}\.[0-9]{2,4}) at position i: the pair
\* <<start, end>> of group 1, or << >>.
BisZumSpan(s, lower, i) ==
    IF MatchesAt(lower, i, "bis zum") /\ i + 7 <= Len(s) /\ IsSpace(CharAt(s, i + 7))
    THEN LET d == SkipSpace(s, i + 7)
             n1 == DigitRun(s, d, 1, 2, ".")
             n2 == DigitRun(s, d + n1 + 1, 1, 2, ".")
             n3 == DigitRun(s, d + n1 + n2 + 2, 2, 4, "")
         IN IF n1 > 0 /\ n2 > 0 /\ n3 > 0
            THEN << d, d + n1 + n2 + n3 + 1 >>
            ELSE << >>
    ELSE << >>

infer_deadline(text) ==
    LET lower == str_lower(text)
        pos == 1..Len(text)
        apply == {i \in pos : ApplyByStart(text, lower, i) > 0}
        frist == {i \in pos : FristStart(text, lower, i) > 0}
        biszum == {i \in pos : BisZumSpan(text, lower, i) # << >>}
    IN IF apply # {}
       THEN LET c == ApplyByStart(text, lower, SetMin(apply))
            IN str_strip(SubSeq(text, c, PhraseEnd(text, c)))
       ELSE IF frist # {}
       THEN LET c == FristStart(text, lower, SetMin(frist))
            IN str_strip(SubSeq(text, c, PhraseEnd(text, c)))
       ELSE IF biszum # {}
       THEN LET span == BisZumSpan(text, lower, SetMin(biszum))
            IN str_strip(SubSeq(text, span[1], span[2]))
       ELSE "Not found"

-----------------------------------------------------------------------------
(* Item Assembler                                                          *)

\* re.search(r"(?i)<html|<br\s*/?>|<div\b|<body\b", raw_text): the texts the
\* model feeds to parse_digest_text are plain, so html_to_text never runs.
HasMarkup(text) ==
    LET lower == str_lower(text)
    IN \/ Contains(lower, "<html")
       \/ \E i \in 1..Len(lower) :
             /\ MatchesAt(lower, i, "<br")
             /\ LET j == SkipSpace(lower, i + 3)
                IN MatchesAt(lower, j, ">") \/ MatchesAt(lower, j, "/>")
       \/ \E i \in 1..Len(lower) :
             /\ MatchesAt(lower, i, "<div") \/ MatchesAt(lower, i, "<body")
             /\ WordBoundaryAt(lower, i + (IF MatchesAt(lower, i, "<div") THEN 4 ELSE 5))

\* str(n) for a natural number n.
RECURSIVE nat_str(_)
nat_str(n) ==
    IF n < 10 THEN CharAt("0123456789", n + 1)
    ELSE nat_str(n \div 10) \o CharAt("0123456789", (n % 10) + 1)

\* hashlib.sha1(...).hexdigest()[:16]: an opaque digest of its argument,
\* equal for equal arguments and taken to differ for different ones.
sha1_hex16(source) == << "sha1", source >>

\* The body of the loop of parse_digest_text for one block.
assemble_item(block, idx) ==
    LET h_subject == extract_header(block, "Subject")
        h_from == extract_header(block, "From")
        h_date == extract_header(block, "Date")
        subject == IF h_subject # "" THEN h_subject ELSE "Message " \o nat_str(idx)
        sender == IF h_from # "" THEN h_from ELSE "Unknown"
        date == IF h_date # "" THEN h_date ELSE "Unknown"
        body == block_body(block)
        text == subject \o "\n" \o body
        links == dedup_keep_first(find_links(body, 1))
        fit == classify_ds_policy_fit(text)
        is_job_post == is_job(text)
        fingerprint_source ==
            clean_subject(subject) \o "|" \o sender \o "|" \o date \o "|"
                \o (IF links # << >> THEN links[1] ELSE "")
    IN [subject |-> clean_subject(subject),
        from |-> sender,
        date |-> date,
        organization |-> infer_org(subject, body),
        positionType |-> infer_type(text, is_job_post),
        deadline |-> infer_deadline(text),
        links |-> links,
        snippet |-> str_strip(body),
        isJob |-> is_job_post,
        isDsPolicyFit |-> fit.isDsPolicyFit,
        dsPolicyScore |-> fit.dsPolicyScore,
        dsPolicyMatchedKeywords |-> fit.dsPolicyMatchedKeywords,
        id |-> sha1_hex16(fingerprint_source)]

\* The loop over split_messages(raw_text) for a text without markup
\* (~HasMarkup(text)), the only kind the bodies of Messages are.
parse_digest_text(text) ==
    LET blocks == split_messages(text)
    IN [idx \in 1..Len(blocks) |-> assemble_item(blocks[idx], idx)]

-----------------------------------------------------------------------------
(* Store Merger: the pure parts of main()                                  *)

\* The printable ASCII characters in code-point order: 32 (space) to 95,
\* and 97 to 126 (a string literal cannot hold the grave accent, 96).
AsciiLow == " !\"#$%&'()*+,-./0123456789:;<=>?@ABCDEFGHIJKLMNOPQRSTUVWXYZ[\\]^_"
AsciiHigh == "abcdefghijklmnopqrstuvwxyz{|}~"

\* ord(c)
CharCode(c) ==
    LET low == {i \in 1..Len(AsciiLow) : CharAt(AsciiLow, i) = c}
        high == {i \in 1..Len(AsciiHigh) : CharAt(AsciiHigh, i) = c}
    IN IF low # {} THEN 31 + SetMin(low)
       ELSE IF high # {} THEN 96 + SetMin(high)
       ELSE CASE c = "\t" -> 9
              [] c = "\n" -> 10
              [] c = "\r" -> 13
              [] c = "Ä" -> 196
              [] c = "Ö" -> 214
              [] c = "Ü" -> 220
              [] c = "ß" -> 223
              [] c = "ä" -> 228
              [] c = "ö" -> 246
              [] c = "ü" -> 252
              [] OTHER -> 65533

\* a < b for Python strings: by code point at the first difference, a proper
\* prefix first.
StrLess(a, b) ==
    LET n == IF Len(a) < Len(b) THEN Len(a) ELSE Len(b)
        diff == {i \in 1..n : CharAt(a, i) # CharAt(b, i)}
    IN IF diff = {} THEN Len(a) < Len(b)
       ELSE CharCode(CharAt(a, SetMin(diff))) < CharCode(CharAt(b, SetMin(diff)))

\* item.get(field, default)
ItemGet(item, field, default) == IF field \in DOMAIN item THEN item[field] ELSE default

\* item[field] = value
ItemSet(item, field, value) ==
    [f \in DOMAIN item \cup {field} |-> IF f = field THEN value ELSE item[f]]

DateKey(item) == ItemGet(item, "date", "")

\* sorted(items, key=date, reverse=True) is stable: x goes after every item
\* whose key is not smaller than its own.
InsertByDateDesc(sorted, x) ==
    LET smaller == {i \in DOMAIN sorted : StrLess(DateKey(sorted[i]), DateKey(x))}
        at == IF smaller = {} THEN Len(sorted) + 1 ELSE SetMin(smaller)
    IN SubSeq(sorted, 1, at - 1) \o << x >> \o SubSeq(sorted, at, Len(sorted))

RECURSIVE sorted_by_date_desc(_)
sorted_by_date_desc(items) ==
    IF items = << >> THEN << >>
    ELSE InsertByDateDesc(sorted_by_date_desc(SubSeq(items, 1, Len(items) - 1)),
                          items[Len(items)])

\* "\n".join([subject, snippet, organization, positionType]) of main's loop.
reconstructed_text(item) ==
    ItemGet(item, "subject", "") \o "\n" \o ItemGet(item, "snippet", "") \o "\n"
        \o ItemGet(item, "organization", "") \o "\n" \o ItemGet(item, "positionType", "")

HasFitFields(item) == "isDsPolicyFit" \in DOMAIN item /\ "dsPolicyScore" \in DOMAIN item

\* The body of main's loop over merged.
reclassify(item) ==
    LET text == reconstructed_text(item)
        job == is_job(text)
        typed == ItemSet(ItemSet(item, "isJob", job), "positionType", infer_type(text, job))
    IN IF ~HasFitFields(item)
       THEN LET fit == classify_ds_policy_fit(text)
            IN ItemSet(ItemSet(ItemSet(typed,
                   "isDsPolicyFit", fit.isDsPolicyFit),
                   "dsPolicyScore", fit.dsPolicyScore),
                   "dsPolicyMatchedKeywords", fit.dsPolicyMatchedKeywords)
       ELSE typed

\* {item.get("id") for item in existing_items if item.get("id")}
ids_of(items) ==
    {items[i].id : i \in {i \in DOMAIN items : "id" \in DOMAIN items[i] /\ items[i].id # ""}}

\* The inner loop of main without the membership test.
dedup_into_nocheck(state, parsed) ==
    [known |-> state.known \cup {parsed[i].id : i \in DOMAIN parsed},
     new |-> state.new \o parsed]

\* The inner loop of main over one mail's parsed items: `state` is
\* [known, new]; an item whose id is known is skipped.
RECURSIVE dedup_into(_, _)
dedup_into(state, parsed) ==
    IF parsed = << >> THEN state
    ELSE LET before == dedup_into(state, SubSeq(parsed, 1, Len(parsed) - 1))
             item == parsed[Len(parsed)]
         IN IF item.id \in before.known THEN before
            ELSE [known |-> before.known \cup {item.id}, new |-> Append(before.new, item)]

-----------------------------------------------------------------------------
(* Bounds and inputs                                                       *)

\* The cap of merged[:500], scaled down so that a run can exceed it.
MAX_STORED_ITEMS == 2
\* Runs of main() in one behaviour.
MaxRuns == 3
\* Items in the file before the first run.
MaxPrior == 2
\* Pieces an input of split_messages is put together from.
MaxPieces == 3
\* Words a classified text is put together from.
MaxWords == 2

DigestA ==
    "Message: 1\nSubject: [ib-liste] PhD job, Uni A\nFrom: a@x\nDate: 2024-05-03\n\n"
        \o "Apply by 1 June. ml and policy http://x/1\n\n"
        \o "Message: 2\nSubject: Neue Professuren\nFrom: b@x\nDate: 2024-05-01\n\n"
        \o "Talk on trial data\n"

DigestB ==
    "Message: 1\nSubject: [IB-LISTE] Neue Professuren\nFrom: b@x\nDate: 2024-05-01\n\n"
        \o "Talk on trial data\n\n"
        \o "Message: 2\nSubject: Praktikum EU\nFrom: c@x\nDate: 2024-05-02\n\n"
        \o "Bewerbungsfrist: 1.7.2024\n\n"
        \o "Message: 3\nSubject: Neue Professuren\nFrom: b@x\nDate: 2024-05-01\n\n"
        \o "Other text\n"

\* The messages of the folder as email.message_from_bytes, decode_mime and
\* extract_text_body give them; `seen` is the server's \Seen flag.
Messages ==
    << [seen |-> FALSE, subject |-> "[ib-liste] Digest 1", from |-> "list@x.org",
        date |-> "Fri, 3 May 2024", body |-> DigestA],
       [seen |-> FALSE, subject |-> "Newsletter", from |-> "news@y.org",
        date |-> "Thu, 2 May 2024", body |-> "hello job"],
       [seen |-> TRUE, subject |-> "[IB-Liste] Digest 2", from |-> "List@X.org",
        date |-> "Wed, 1 May 2024", body |-> DigestB] >>

PositionTypes ==
    {"Assistant Professor", "Postdoc", "PhD", "Professorship", "Internship",
     "Student Assistant", "Position", "N/A"}

FitFields == {"isDsPolicyFit", "dsPolicyScore", "dsPolicyMatchedKeywords"}

\* An item as an earlier version of the script, with other classifier rules,
\* may have left it in the file: any position type, any job flag, and the fit
\* fields absent, stale, or as the parser computes them now.
LegacyVariants(item) ==
    LET typed == {[item EXCEPT !.positionType = t, !.isJob = j] :
                     t \in PositionTypes, j \in BOOLEAN}
    IN typed
       \cup {[f \in DOMAIN it \ FitFields |-> it[f]] : it \in typed}
       \cup {[it EXCEPT !.isDsPolicyFit = TRUE, !.dsPolicyScore = 7,
                        !.dsPolicyMatchedKeywords = << "sql", "peace" >>] : it \in typed}

OldItem ==
    [subject |-> "Old post", from |-> "d@x", date |-> "2023-12-31",
     organization |-> "Unknown", positionType |-> "N/A", deadline |-> "Not found",
     links |-> << >>, snippet |-> "Reading group", isJob |-> FALSE,
     isDsPolicyFit |-> FALSE, dsPolicyScore |-> 0, dsPolicyMatchedKeywords |-> << >>,
     id |-> sha1_hex16("Old post|d@x|2023-12-31|")]

KnownBodies == {Messages[i].body : i \in DOMAIN Messages}

\* parse_digest_text on the bodies of Messages, computed once.
ParseTable == [b \in KnownBodies |-> parse_digest_text(b)]

\* parse_digest_text(body) for a body of Messages.
parsed_items_of(body) == ParseTable[body]

LegacyItems == LegacyVariants(parsed_items_of(DigestA)[2]) \cup {OldItem}

IsSortedByDateDesc(items) ==
    \A i \in 1..(Len(items) - 1) : ~StrLess(DateKey(items[i]), DateKey(items[i + 1]))

DistinctIds(items) ==
    \A i, j \in DOMAIN items : i # j => items[i].id # items[j].id

\* What DATA_FILE may hold before the first run: nothing, or what an earlier
\* run wrote: at most the cap, sorted, no id twice.
PriorItemLists ==
    LET n == IF MaxPrior < MAX_STORED_ITEMS THEN MaxPrior ELSE MAX_STORED_ITEMS
    IN {seq \in UNION {[1..k -> LegacyItems] : k \in 0..n} :
           IsSortedByDateDesc(seq) /\ DistinctIds(seq)}

\* The items a run can meet in existing_items + new_items: those of the file
\* before the first run, those parsed, and what up to MaxRuns passes of
\* main's loop make of them.
RECURSIVE ItemsAfter(_)
ItemsAfter(n) ==
    IF n = 0
    THEN LegacyItems \cup UNION {{ParseTable[b][i] : i \in DOMAIN ParseTable[b]} :
                                    b \in KnownBodies}
    ELSE LET before == ItemsAfter(n - 1)
         IN before \cup {reclassify(it) : it \in before}

KnownItems == ItemsAfter(MaxRuns)

\* main's loop body on those items, computed once.
ReclassifyTable == [it \in KnownItems |-> reclassify(it)]

\* reclassify(item) for an item a run can meet.
reclassified(item) == ReclassifyTable[item]

EnvConfigs ==
    {[sender_filter |-> sf, subject_filter |-> sj] :
        sf \in {"", "x.org"}, sj \in {"", "ib-liste"}}

DefaultConfig == [sender_filter |-> "", subject_filter |-> "ib-liste"]

-----------------------------------------------------------------------------
(* fetch_messages()                                                        *)

\* search_attempts with the loosest search put first.
search_attempts_all_first(config) ==
    LET strict == [label |-> "strict", unseen |-> TRUE,
                   sender |-> config.sender_filter, subject |-> config.subject_filter]
        unseen_only == [label |-> "unseen_only", unseen |-> TRUE,
                        sender |-> "", subject |-> ""]
        all == [label |-> "all", unseen |-> FALSE, sender |-> "", subject |-> ""]
    IN IF config.sender_filter # "" \/ config.subject_filter # ""
       THEN << all, unseen_only, strict >>
       ELSE << all, strict >>

\* search_attempts as built from the two filters: label and criteria.
search_attempts(config) ==
    LET strict == [label |-> "strict", unseen |-> TRUE,
                   sender |-> config.sender_filter, subject |-> config.subject_filter]
        unseen_only == [label |-> "unseen_only", unseen |-> TRUE,
                        sender |-> "", subject |-> ""]
        all == [label |-> "all", unseen |-> FALSE, sender |-> "", subject |-> ""]
    IN IF config.sender_filter # "" \/ config.subject_filter # ""
       THEN << strict, unseen_only, all >>
       ELSE << strict, all >>

\* What the server answers to SEARCH with the criteria: the ids, in order, of
\* the messages that are unseen (UNSEEN), whose sender holds the FROM string
\* and whose subject holds the SUBJECT string (both without regard to case).
server_search(box, criteria) ==
    LET Match(i) ==
            /\ criteria.unseen => ~box[i].seen
            /\ Contains(str_lower(box[i].from), str_lower(criteria.sender))
            /\ Contains(str_lower(box[i].subject), str_lower(criteria.subject))
        Ids == [i \in DOMAIN box |-> i]
    IN SelectSeq(Ids, Match)

\* The client-side checks with the sender check left out.
passes_filters_subject_only(config, msg) ==
    config.subject_filter # "" =>
        Contains(str_lower(msg.subject), str_lower(config.subject_filter))

\* The two client-side checks on a fetched message.
passes_filters(config, msg) ==
    /\ config.subject_filter # "" =>
           Contains(str_lower(msg.subject), str_lower(config.subject_filter))
    /\ config.sender_filter # "" =>
           Contains(str_lower(msg.from), str_lower(config.sender_filter))

mail_record(msg) ==
    [mail_subject |-> msg.subject, mail_from |-> msg.from, mail_date |-> msg.date,
     body |-> msg.body]

FetchIdle ==
    /\ fpc = "idle" /\ attempts = << >> /\ outcomes = << >> /\ tier = 1
    /\ ids = << >> /\ id_pos = 0 /\ fetch_failed = {} /\ results = << >>

\* conn.select returns OK.
SelectFolder ==
    /\ fpc = "select"
    /\ fpc' = "search"
    /\ UNCHANGED <<cfg, mailbox, attempts, outcomes, tier, ids, id_pos, fetch_failed, results>>
    /\ UNCHANGED <<mainVars, splitVars, clsVars>>

\* conn.select returns another status: logout, RuntimeError out of main.
SelectFolderFails ==
    /\ fpc = "select"
    /\ fpc' = "folder_error"
    /\ pc' = IF pc = "fetch" THEN "aborted" ELSE pc
    /\ UNCHANGED <<cfg, mailbox, attempts, outcomes, tier, ids, id_pos, fetch_failed, results>>
    /\ UNCHANGED <<store, fileWritten, run, existing_items, known_ids, mails, mail_pos,
                   seen_parsed, new_items, merged, store_at_start, reads, writes>>
    /\ UNCHANGED <<splitVars, clsVars>>

\* One pass of the loop over search_attempts: the search is issued; a status
\* other than OK or an empty answer goes on to the next attempt, a non-empty
\* answer sets ids and leaves the loop.
SearchStep ==
    /\ fpc = "search"
    /\ tier <= Len(search_attempts(cfg))
    /\ LET attempt == search_attempts(cfg)[tier]
           last == tier = Len(search_attempts(cfg))
       IN /\ attempts' = Append(attempts, attempt.label)
          /\ \E status_ok \in BOOLEAN :
                LET found == IF status_ok THEN server_search(mailbox, attempt) ELSE << >>
                IN /\ outcomes' = Append(outcomes,
                                         IF ~status_ok THEN "fail"
                                         ELSE IF found = << >> THEN "empty" ELSE "found")
                   /\ ids' = IF found # << >> THEN found ELSE ids
                   /\ IF found = << >> /\ ~last
                      THEN tier' = tier + 1 /\ fpc' = "search"
                      ELSE tier' = tier /\ fpc' = "fetch"
    /\ UNCHANGED <<cfg, mailbox, id_pos, fetch_failed, results>>
    /\ UNCHANGED <<mainVars, splitVars, clsVars>>

\* One pass of the loop over ids: a fetch that fails is skipped, a fetched
\* message that fails a client-side check is skipped, any other is appended.
FetchOne ==
    /\ fpc = "fetch"
    /\ id_pos < Len(ids)
    /\ LET msg_id == ids[id_pos + 1]
       IN \E status_ok \in BOOLEAN :
             /\ fetch_failed' = IF status_ok THEN fetch_failed ELSE fetch_failed \cup {msg_id}
             /\ results' = IF status_ok /\ passes_filters(cfg, mailbox[msg_id])
                           THEN Append(results, mail_record(mailbox[msg_id]))
                           ELSE results
    /\ id_pos' = id_pos + 1
    /\ UNCHANGED <<fpc, cfg, mailbox, attempts, outcomes, tier, ids>>
    /\ UNCHANGED <<mainVars, splitVars, clsVars>>

\* conn.logout(); return results.  In a run of main the caller binds mails.
FetchReturn ==
    /\ fpc = "fetch"
    /\ id_pos = Len(ids)
    /\ fpc' = "done"
    /\ IF pc = "fetch"
       THEN mails' = results /\ pc' = "parse"
       ELSE UNCHANGED <<mails, pc>>
    /\ UNCHANGED <<cfg, mailbox, attempts, outcomes, tier, ids, id_pos, fetch_failed, results>>
    /\ UNCHANGED <<store, fileWritten, run, existing_items, known_ids, mail_pos,
                   seen_parsed, new_items, merged, store_at_start, reads, writes>>
    /\ UNCHANGED <<splitVars, clsVars>>

\* Any other error of the retrieval (a missing variable of the environment,
\* a refused login, a broken connection): nothing in fetch_messages or main
\* catches it.
FetchRaises ==
    /\ fpc \in {"select", "search", "fetch"}
    /\ fpc' = "error"
    /\ pc' = IF pc = "fetch" THEN "aborted" ELSE pc
    /\ UNCHANGED <<cfg, mailbox, attempts, outcomes, tier, ids, id_pos, fetch_failed, results>>
    /\ UNCHANGED <<store, fileWritten, run, existing_items, known_ids, mails, mail_pos,
                   seen_parsed, new_items, merged, store_at_start, reads, writes>>
    /\ UNCHANGED <<splitVars, clsVars>>

FetchNext ==
    \/ SelectFolder
    \/ SelectFolderFails
    \/ SearchStep
    \/ FetchOne
    \/ FetchReturn
    \/ FetchRaises

-----------------------------------------------------------------------------
(* main()                                                                  *)

\* load_existing when DATA_FILE does not exist (generated_at None is 0 here).
EmptyStore == [generated_at |-> 0, source |-> "imap", items |-> << >>]

\* existing = load_existing(); existing_items; known_ids; then the call of
\* fetch_messages begins.
Load ==
    /\ pc = "start"
    /\ reads' = reads + 1
    /\ store_at_start' = store
    /\ existing_items' = store.items
    /\ known_ids' = ids_of(store.items)
    /\ new_items' = << >>
    /\ pc' = "fetch"
    /\ fpc' = "select"
    /\ UNCHANGED <<store, fileWritten, run, mails, mail_pos, seen_parsed, merged, writes>>
    /\ UNCHANGED <<cfg, mailbox, attempts, outcomes, tier, ids, id_pos, fetch_failed, results>>
    /\ UNCHANGED <<splitVars, clsVars>>

\* The slice taken from the other end of the list.
truncate_tail(items) ==
    SubSeq(items, IF Len(items) > MAX_STORED_ITEMS THEN Len(items) - MAX_STORED_ITEMS + 1 ELSE 1,
           Len(items))

\* merged[:500]
truncate(items) == Take(items, MAX_STORED_ITEMS)

\* merged = sorted(...), then the loop over merged.
merge_items(existing, new) ==
    LET sorted == sorted_by_date_desc(existing \o new)
    IN [i \in 1..Len(sorted) |-> reclassified(sorted[i])]

\* The payload main builds; the clock is the number of the run.
build_payload(all, new, messages, now) ==
    [generated_at |-> now,
     source |-> "imap",
     items |-> truncate(all),
     stats |-> [new_items |-> Len(new),
                total_items |-> Len(truncate(all)),
                processed_messages |-> Len(messages)]]

\* ParseMail with the file written after every mail instead of once at the
\* end.
ParseMail_saving ==
    /\ pc = "parse"
    /\ mail_pos < Len(mails)
    /\ LET parsed == parsed_items_of(mails[mail_pos + 1].body)
           after == dedup_into([known |-> known_ids, new |-> new_items], parsed)
       IN /\ known_ids' = after.known
          /\ new_items' = after.new
          /\ seen_parsed' = seen_parsed \o parsed
    /\ mail_pos' = mail_pos + 1
    /\ store' = build_payload(existing_items \o new_items', new_items', mails, run)
    /\ fileWritten' = TRUE
    /\ writes' = writes + 1
    /\ UNCHANGED <<pc, run, existing_items, mails, merged, store_at_start, reads>>
    /\ UNCHANGED <<fetchVars, splitVars, clsVars>>

\* One pass of the loop over mails: the mail's body is parsed and its items
\* go through the inner loop.
ParseMail ==
    /\ pc = "parse"
    /\ mail_pos < Len(mails)
    /\ LET parsed == parsed_items_of(mails[mail_pos + 1].body)
           after == dedup_into([known |-> known_ids, new |-> new_items], parsed)
       IN /\ known_ids' = after.known
          /\ new_items' = after.new
          /\ seen_parsed' = seen_parsed \o parsed
    /\ mail_pos' = mail_pos + 1
    /\ UNCHANGED <<store, fileWritten, pc, run, existing_items, mails, merged,
                   store_at_start, reads, writes>>
    /\ UNCHANGED <<fetchVars, splitVars, clsVars>>

\* After the loop over mails: sort, recompute, build the payload, save it.
MergeAndSave ==
    /\ pc = "parse"
    /\ mail_pos = Len(mails)
    /\ merged' = merge_items(existing_items, new_items)
    /\ store' = build_payload(merged', new_items, mails, run)
    /\ fileWritten' = TRUE
    /\ writes' = writes + 1
    /\ pc' = "done"
    /\ UNCHANGED <<run, existing_items, known_ids, mails, mail_pos, seen_parsed,
                   new_items, store_at_start, reads>>
    /\ UNCHANGED <<fetchVars, splitVars, clsVars>>

\* An error between the return of fetch_messages and save_payload: main has
\* no handler, the run ends there.
RunFails ==
    /\ pc = "parse"
    /\ pc' = "aborted"
    /\ UNCHANGED <<store, fileWritten, run, existing_items, known_ids, mails, mail_pos,
                   seen_parsed, new_items, merged, store_at_start, reads, writes>>
    /\ UNCHANGED <<fetchVars, splitVars, clsVars>>

\* The script is started again: every local of main and fetch_messages is new.
NextRun ==
    /\ pc \in {"done", "aborted"}
    /\ run < MaxRuns
    /\ run' = run + 1
    /\ pc' = "start"
    /\ existing_items' = << >>
    /\ known_ids' = {}
    /\ mails' = << >>
    /\ mail_pos' = 0
    /\ seen_parsed' = << >>
    /\ new_items' = << >>
    /\ merged' = << >>
    /\ reads' = 0
    /\ writes' = 0
    /\ fpc' = "idle"
    /\ attempts' = << >>
    /\ outcomes' = << >>
    /\ tier' = 1
    /\ ids' = << >>
    /\ id_pos' = 0
    /\ fetch_failed' = {}
    /\ results' = << >>
    /\ UNCHANGED <<store, fileWritten, store_at_start, cfg, mailbox>>
    /\ UNCHANGED <<splitVars, clsVars>>

MainIdle ==
    /\ store = EmptyStore /\ fileWritten = FALSE /\ pc = "idle" /\ run = 0
    /\ existing_items = << >> /\ known_ids = {} /\ mails = << >> /\ mail_pos = 0
    /\ seen_parsed = << >> /\ new_items = << >> /\ merged = << >>
    /\ store_at_start = EmptyStore /\ reads = 0 /\ writes = 0

SplitIdle == raw_text = "" /\ chunks_out = << >> /\ split_done = FALSE

NoFit == [isDsPolicyFit |-> FALSE, dsPolicyScore |-> 0, dsPolicyMatchedKeywords |-> << >>]

ClsIdle ==
    /\ cls_text = "" /\ cls_kw = "" /\ cls_sep = "" /\ cls_new = ""
    /\ cls_before = NoFit /\ cls_after = NoFit /\ cls_done = FALSE

\* The script run MaxRuns times over a file that is absent or was left by
\* earlier runs, against the folder Messages with the default filters.
Init ==
    /\ \E prior \in PriorItemLists :
          store = IF prior = << >> THEN EmptyStore
                  ELSE [generated_at |-> 0, source |-> "imap", items |-> prior,
                        stats |-> [new_items |-> 0, total_items |-> Len(prior),
                                   processed_messages |-> 0]]
    /\ store_at_start = store
    /\ fileWritten = FALSE
    /\ pc = "start"
    /\ run = 1
    /\ existing_items = << >> /\ known_ids = {} /\ mails = << >> /\ mail_pos = 0
    /\ seen_parsed = << >> /\ new_items = << >> /\ merged = << >>
    /\ reads = 0 /\ writes = 0
    /\ cfg = DefaultConfig
    /\ mailbox = Messages
    /\ FetchIdle
    /\ SplitIdle
    /\ ClsIdle

Next ==
    \/ Load
    \/ FetchNext
    \/ ParseMail
    \/ MergeAndSave
    \/ RunFails
    \/ NextRun

Spec == Init /\ [][Next]_vars

-----------------------------------------------------------------------------
(* fetch_messages() on its own: any filters, any folder                    *)

\* The folders of the server: a prefix of Messages, each message seen or not.
Mailboxes ==
    UNION {{[i \in 1..n |-> [Messages[i] EXCEPT !.seen = f[i]]] : f \in [1..n -> BOOLEAN]} :
              n \in 0..Len(Messages)}

InitFetch ==
    /\ MainIdle
    /\ cfg \in EnvConfigs
    /\ mailbox \in Mailboxes
    /\ fpc = "select" /\ attempts = << >> /\ outcomes = << >> /\ tier = 1
    /\ ids = << >> /\ id_pos = 0 /\ fetch_failed = {} /\ results = << >>
    /\ SplitIdle
    /\ ClsIdle

SpecFetch == InitFetch /\ [][FetchNext]_vars

-----------------------------------------------------------------------------
(* split_messages() on its own                                             *)

Pieces == {"Message: 1\n", "Mess", "age: 1\n", "\r", "\n", "x"}

RECURSIVE Concat(_)
Concat(seq) == IF seq = << >> THEN "" ELSE seq[1] \o Concat(Tail(seq))

\* The arguments of split_messages: up to MaxPieces pieces put together.
SplitInputs == {Concat(ps) : ps \in UNION {[1..n -> Pieces] : n \in 0..MaxPieces}}

SplitCall ==
    /\ ~split_done
    /\ chunks_out' = split_messages(raw_text)
    /\ split_done' = TRUE
    /\ UNCHANGED raw_text
    /\ UNCHANGED <<mainVars, fetchVars, clsVars>>

InitSplit ==
    /\ MainIdle
    /\ cfg = DefaultConfig /\ mailbox = Messages /\ FetchIdle
    /\ raw_text \in SplitInputs /\ chunks_out = << >> /\ split_done = FALSE
    /\ ClsIdle

SpecSplit == InitSplit /\ [][SplitCall]_vars

-----------------------------------------------------------------------------
(* classify_ds_policy_fit() before and after a keyword is added            *)

Words == {"ai", "python", "eu"}

RECURSIVE JoinWords(_)
JoinWords(seq) ==
    IF seq = << >> THEN ""
    ELSE IF Len(seq) = 1 THEN seq[1]
    ELSE seq[1] \o " " \o JoinWords(Tail(seq))

\* The texts classified: up to MaxWords words with a space between them.
ClassifyTexts == {JoinWords(ws) : ws \in UNION {[1..n -> Words] : n \in 0..MaxWords}}

AllKeywords ==
    {PROFILE_DS_KEYWORDS[i] : i \in DOMAIN PROFILE_DS_KEYWORDS}
        \cup {PROFILE_POLICY_KEYWORDS[i] : i \in DOMAIN PROFILE_POLICY_KEYWORDS}

\* The text is classified, a keyword of either list is put before or after
\* it, with nothing, a space or a newline between, and it is classified again.
AddKeyword ==
    /\ ~cls_done
    /\ \E k \in AllKeywords, sep \in {"", " ", "\n"}, front \in BOOLEAN :
          /\ cls_kw' = k
          /\ cls_sep' = sep
          /\ cls_new' = IF front THEN k \o sep \o cls_text ELSE cls_text \o sep \o k
    /\ cls_before' = classify_ds_policy_fit(cls_text)
    /\ cls_after' = classify_ds_policy_fit(cls_new')
    /\ cls_done' = TRUE
    /\ UNCHANGED cls_text
    /\ UNCHANGED <<mainVars, fetchVars, splitVars>>

InitClassify ==
    /\ MainIdle
    /\ cfg = DefaultConfig /\ mailbox = Messages /\ FetchIdle
    /\ SplitIdle
    /\ cls_text \in ClassifyTexts
    /\ cls_kw = "" /\ cls_sep = "" /\ cls_new = ""
    /\ cls_before = NoFit /\ cls_after = NoFit /\ cls_done = FALSE

SpecClassify == InitClassify /\ [][AddKeyword]_vars

-----------------------------------------------------------------------------
(* Properties of main (Spec)                                               *)

\* subject|from|date|first link, the four values the id is computed from.
Fingerprint(item) ==
    << item.subject, item.from, item.date,
       IF item.links = << >> THEN "" ELSE item.links[1] >>

\* C1: while and after the mails are processed, no item of new_items has
\* the id of a prior item, no two have the same id, each is the first parsed
\* item of this run with its id, and every parsed item's id is that of a
\* prior item or of exactly one item of new_items; parsed items with the same
\* subject, from, date and first link have the same id.
C1_Dedup ==
    pc \in {"parse", "done"} =>
        LET prior == ids_of(existing_items)
        IN /\ \A i \in DOMAIN new_items : new_items[i].id \notin prior
           /\ \A i, j \in DOMAIN new_items : i # j => new_items[i].id # new_items[j].id
           /\ \A i \in DOMAIN new_items :
                  \E k \in DOMAIN seen_parsed :
                      /\ seen_parsed[k] = new_items[i]
                      /\ \A e \in 1..(k - 1) : seen_parsed[e].id # new_items[i].id
           /\ \A k \in DOMAIN seen_parsed :
                  \/ seen_parsed[k].id \in prior
                  \/ Cardinality({i \in DOMAIN new_items :
                                     new_items[i].id = seen_parsed[k].id}) = 1
           /\ \A k, e \in DOMAIN seen_parsed :
                  Fingerprint(seen_parsed[k]) = Fingerprint(seen_parsed[e])
                      => seen_parsed[k].id = seen_parsed[e].id

\* Two items with the same subject, from, date and first link were parsed in
\* a run whose prior items do not have their id, and one was retained.
C1_Witness ==
    /\ pc = "done"
    /\ \E k, e \in DOMAIN seen_parsed :
          /\ k < e
          /\ Fingerprint(seen_parsed[k]) = Fingerprint(seen_parsed[e])
          /\ seen_parsed[k].id \notin ids_of(existing_items)
          /\ Cardinality({i \in DOMAIN new_items : new_items[i].id = seen_parsed[k].id}) = 1

\* C2: after a run the persisted sequence has at most MAX_STORED_ITEMS
\* items, in order of non-increasing date string; it has exactly that many
\* when prior and new items are more, and all of them otherwise; its items
\* are items of the prior or new ones, and no item left out has a date string
\* greater than that of an item kept.
C2_Truncation ==
    pc = "done" =>
        LET all == existing_items \o new_items
            kept == store.items
        IN /\ Len(kept) <= MAX_STORED_ITEMS
           /\ \A i \in 1..(Len(kept) - 1) : ~StrLess(kept[i].date, kept[i + 1].date)
           /\ Len(all) > MAX_STORED_ITEMS => Len(kept) = MAX_STORED_ITEMS
           /\ Len(all) <= MAX_STORED_ITEMS => Len(kept) = Len(all)
           /\ \A i \in DOMAIN kept :
                  \E j \in DOMAIN all : all[j].id = kept[i].id /\ all[j].date = kept[i].date
           /\ \A i, j \in DOMAIN kept : i # j => kept[i].id # kept[j].id
           /\ \A j \in DOMAIN all :
                  (\A i \in DOMAIN kept : kept[i].id # all[j].id)
                      => \A i \in DOMAIN kept : ~StrLess(kept[i].date, all[j].date)
           /\ store.stats.total_items = Len(kept)

\* Prior and new items were more than the cap; the file holds exactly the
\* cap and an item with a smaller date string than every kept one was left
\* out.
C2_Witness ==
    /\ pc = "done"
    /\ Len(existing_items) + Len(new_items) > MAX_STORED_ITEMS
    /\ Len(store.items) = MAX_STORED_ITEMS
    /\ \E j \in DOMAIN existing_items :
          /\ \A i \in DOMAIN store.items : store.items[i].id # existing_items[j].id
          /\ \A i \in DOMAIN store.items : StrLess(existing_items[j].date, store.items[i].date)

\* C3: a run that adds no new item to a collection an earlier run persisted
\* persists the same items, in the same order, with the same values of every
\* field.
C3_Idempotent ==
    pc = "done" /\ new_items = << >> /\ store_at_start.generated_at # 0
        => store.items = store_at_start.items

\* The reconstructed text of main's loop: subject, snippet, organization and
\* positionType joined by newlines.
JoinedText(item) ==
    item.subject \o "\n" \o item.snippet \o "\n" \o item.organization
        \o "\n" \o item.positionType

\* C4: after a run every merged item, old or new, carries in isJob,
\* positionType, isDsPolicyFit, dsPolicyScore and dsPolicyMatchedKeywords
\* what the classifier computes from the text reconstructed from the item as
\* the run found it, whatever the fields held before.
C4_RecomputeEveryRun ==
    pc = "done" =>
        \A i \in DOMAIN merged :
            \E j \in DOMAIN (existing_items \o new_items) :
                LET old == (existing_items \o new_items)[j]
                    text == JoinedText(old)
                    fit == classify_ds_policy_fit(text)
                IN /\ old.id = merged[i].id
                   /\ merged[i].isJob = is_job(text)
                   /\ merged[i].positionType = infer_type(text, is_job(text))
                   /\ merged[i].isDsPolicyFit = fit.isDsPolicyFit
                   /\ merged[i].dsPolicyScore = fit.dsPolicyScore
                   /\ merged[i].dsPolicyMatchedKeywords = fit.dsPolicyMatchedKeywords

\* C5: a run reads the file once and writes it at most once; until the
\* write the file is as the run found it; the write is made only when the
\* retrieval has returned, every mail is parsed and the merge is computed; a
\* run that was aborted has written nothing and left the file as it found it,
\* and one aborted by the folder selection has produced no item.
C5_AllOrNothing ==
    /\ reads <= 1
    /\ writes <= 1
    /\ pc \in {"fetch", "parse", "done", "aborted"} => reads = 1
    /\ pc = "start" => reads = 0 /\ writes = 0
    /\ pc \in {"fetch", "parse", "aborted"} => writes = 0 /\ store = store_at_start
    /\ writes = 1 =>
           /\ pc = "done"
           /\ fpc = "done"
           /\ mails = results
           /\ mail_pos = Len(mails)
           /\ Len(merged) = Len(existing_items) + Len(new_items)
           /\ store.items = SubSeq(merged, 1, Len(store.items))
    /\ pc = "aborted" /\ fpc = "folder_error" => seen_parsed = << >> /\ new_items = << >>

\* The second run is aborted after it has parsed a mail and found a new
\* item: the file written by the first run is untouched.
C5_Witness ==
    /\ pc = "aborted"
    /\ run = 2
    /\ fpc = "done"
    /\ new_items # << >>
    /\ writes = 0
    /\ store = store_at_start
    /\ store.generated_at = 1

\* C10: every item parse_digest_text returns, and every item of a file
\* main has written, that is no job has the position type N/A.
C10_TypeGated ==
    /\ \A k \in DOMAIN seen_parsed :
           ~seen_parsed[k].isJob => seen_parsed[k].positionType = "N/A"
    /\ fileWritten =>
           \A i \in DOMAIN store.items :
               ~store.items[i].isJob => store.items[i].positionType = "N/A"

\* A prior item that was no job but of type Professorship is in the file
\* after the run, as no job of type N/A, and a parsed item that is no job is
\* there too.
C10_Witness ==
    /\ pc = "done"
    /\ \E i \in DOMAIN store.items, j \in DOMAIN existing_items :
          /\ existing_items[j].id = store.items[i].id
          /\ ~existing_items[j].isJob
          /\ existing_items[j].positionType = "Professorship"
          /\ ~store.items[i].isJob
          /\ store.items[i].positionType = "N/A"
    /\ \E k \in DOMAIN seen_parsed : ~seen_parsed[k].isJob

-----------------------------------------------------------------------------
(* Properties of fetch_messages (SpecFetch)                                *)

\* The labels of the tiers in the order the claim gives them.
TierOrder ==
    IF cfg.sender_filter # "" \/ cfg.subject_filter # ""
    THEN << "strict", "unseen_only", "all" >>
    ELSE << "strict", "all" >>

\* The ids, in the folder's order, of the messages a tier asks for.
TierMatches(label) ==
    LET Wanted(i) ==
            CASE label = "strict" ->
                    /\ ~mailbox[i].seen
                    /\ Contains(str_lower(mailbox[i].from), str_lower(cfg.sender_filter))
                    /\ Contains(str_lower(mailbox[i].subject), str_lower(cfg.subject_filter))
              [] label = "unseen_only" -> ~mailbox[i].seen
              [] OTHER -> TRUE
    IN SelectSeq([i \in DOMAIN mailbox |-> i], Wanted)

\* C6: the searches are issued in the order strict, unseen_only (only with a
\* filter set), all; a search is issued only after every earlier one failed
\* or came back empty; once the searching is over, either the last search
\* issued found something, ids is exactly what that tier matches and no later
\* tier was tried, or every tier was tried without a match and there is
\* nothing to fetch and nothing returned, the function still going on to its
\* normal return.
C6_TieredSearch ==
    LET n == Len(attempts)
    IN /\ n <= Len(TierOrder)
       /\ Len(outcomes) = n
       /\ \A i \in 1..n : attempts[i] = TierOrder[i]
       /\ \A i \in 1..(n - 1) : outcomes[i] \in {"fail", "empty"}
       /\ fpc = "search" => ids = << >> /\ \A i \in 1..n : outcomes[i] # "found"
       /\ fpc \in {"fetch", "done"} =>
              /\ id_pos <= Len(ids)
              /\ IF n > 0 /\ outcomes[n] = "found"
                 THEN ids # << >> /\ ids = TierMatches(attempts[n])
                 ELSE n = Len(TierOrder) /\ ids = << >> /\ results = << >>
       /\ fpc = "done" => id_pos = Len(ids)

\* The strict search comes back empty, the unseen-only search finds
\* messages, the third tier is never tried and the call returns.
C6_Witness ==
    /\ fpc = "done"
    /\ Len(TierOrder) = 3
    /\ attempts = << "strict", "unseen_only" >>
    /\ outcomes = << "empty", "found" >>
    /\ ids # << >>
    /\ id_pos = Len(ids)

\* C7: every record in results has a subject holding the subject filter and
\* a sender holding the sender filter (without regard to case, each only when
\* the filter is set), whichever tier gave the ids; and results is, in order,
\* the records of the ids handled so far whose fetch did not fail and that
\* pass both checks: a failed fetch drops that one message only.
C7_FilterBackstop ==
    LET SubjectOk(m) ==
            cfg.subject_filter # "" =>
                Contains(str_lower(m.subject), str_lower(cfg.subject_filter))
        SenderOk(m) ==
            cfg.sender_filter # "" =>
                Contains(str_lower(m.from), str_lower(cfg.sender_filter))
        Kept(i) == i \notin fetch_failed /\ SubjectOk(mailbox[i]) /\ SenderOk(mailbox[i])
        kept == SelectSeq(SubSeq(ids, 1, id_pos), Kept)
    IN /\ \A j \in DOMAIN results :
              /\ cfg.subject_filter # "" =>
                     Contains(str_lower(results[j].mail_subject), str_lower(cfg.subject_filter))
              /\ cfg.sender_filter # "" =>
                     Contains(str_lower(results[j].mail_from), str_lower(cfg.sender_filter))
       /\ Len(results) = Len(kept)
       /\ \A j \in DOMAIN results :
              results[j] = [mail_subject |-> mailbox[kept[j]].subject,
                            mail_from |-> mailbox[kept[j]].from,
                            mail_date |-> mailbox[kept[j]].date,
                            body |-> mailbox[kept[j]].body]

\* The loosest tier gave the ids; the fetch of the first message failed, the
\* second was fetched and dropped by a client-side check, the third was
\* fetched and returned.
C7_Witness ==
    /\ fpc = "done"
    /\ attempts[Len(attempts)] = "all"
    /\ ids = << 1, 2, 3 >>
    /\ fetch_failed = {1}
    /\ Len(results) = 1
    /\ results[1].body = mailbox[3].body

-----------------------------------------------------------------------------
(* Properties of split_messages (SpecSplit)                                *)

\* C8 as stated: the result is never empty, and for an input without a
\* marker line it is the one chunk that equals the input.
C8_AsClaimed ==
    split_done =>
        /\ Len(chunks_out) >= 1
        /\ ~HasMarkerLine(raw_text) => chunks_out = << raw_text >>

\* C8: the result is never empty, and when the input with its carriage
\* returns removed has no marker line, the result is the one chunk that
\* equals the input with its carriage returns removed.
C8_SegmenterTotality ==
    split_done =>
        /\ Len(chunks_out) >= 1
        /\ ~HasMarkerLine(remove_cr(raw_text)) => chunks_out = << remove_cr(raw_text) >>

\* An input with a carriage return and no marker line has been split.
C8_Witness ==
    /\ split_done
    /\ raw_text = "x\r\n"
    /\ chunks_out = << "x\n" >>

-----------------------------------------------------------------------------
(* Properties of classify_ds_policy_fit (SpecClassify)                     *)

\* C9 as stated: however the keyword is added to the text, the score does
\* not go down and a fit does not turn into a non-fit.
C9_AsClaimed ==
    cls_done =>
        /\ cls_after.dsPolicyScore >= cls_before.dsPolicyScore
        /\ cls_before.isDsPolicyFit => cls_after.isDsPolicyFit

\* C9: when the keyword is added before or after the text with whitespace
\* between, the score does not go down and a fit does not turn into a
\* non-fit; the whole-word abbreviations are among the keywords added.
C9_ClassifierMonotone ==
    cls_done /\ cls_sep # "" =>
        /\ cls_after.dsPolicyScore >= cls_before.dsPolicyScore
        /\ cls_before.isDsPolicyFit => cls_after.isDsPolicyFit

\* A whole-word abbreviation added after a text with one policy keyword
\* raises the score by one and turns a non-fit into a fit.
C9_Witness ==
    /\ cls_done
    /\ cls_text = "eu"
    /\ cls_kw = "ml"
    /\ cls_new = "eu ml"
    /\ ~cls_before.isDsPolicyFit
    /\ cls_after.isDsPolicyFit
    /\ cls_after.dsPolicyScore = cls_before.dsPolicyScore + 1

====
